---- MODULE Spec2Model ----
(***************************************************************************)
(* Model of the university resource handlers of                            *)
(* src/controllers/UniversityController.ts: getAllUniversities,            *)
(* getUniversityById, addUniversity, updateUniversity, deleteUniversity,   *)
(* and of the persistence calls they make on db.university.                *)
(*                                                                         *)
(* A JSON value is a tagged record [t, v]; a string is a sequence of       *)
(* one-character strings, so that .length and case folding are computed.   *)
(***************************************************************************)
EXTENDS Integers, Sequences, FiniteSets, TLC

VARIABLES
    store,      \* the university table, in table order
    nextId,     \* the next identifier the persistence layer hands out
    pending,    \* SpecRace: the concurrent addUniversity requests and where each stands
    resp,       \* the last handler run: its request, its answer, the table it started from
    created     \* SpecRoundTrip: the Create body of each record not updated or deleted since

vars == <<store, nextId, pending, resp, created>>

(* ------------------------------ bounds ------------------------------- *)

\* identifiers the persistence layer hands out are 1..MaxId
MaxId == 2
\* SpecList: the largest table listed, and the largest page asked for
MaxRecords == 41
MaxPage == 3

(* ---------------------------- JSON values ---------------------------- *)

Undefined == [t |-> "undefined", v |-> <<>>]
Null == [t |-> "null", v |-> <<>>]
Str(s) == [t |-> "string", v |-> s]
Arr(a) == [t |-> "array", v |-> a]

\* JavaScript's !v for the values a body holds: undefined, null and "" are falsy
Falsy(v) == v.t \in {"undefined", "null"} \/ v = Str(<<>>)

\* v || null in place of v ?? null
OrNullFalsy(v) == IF Falsy(v) THEN Null ELSE v

\* v ?? null
OrNull(v) == IF v.t \in {"undefined", "null"} THEN Null ELSE v

\* v.length of a string or an array
Length(v) == Len(v.v)

(* ------------------------- persistence client ------------------------ *)

NoRecord == [id |-> 0]

Ids(st) == {st[i].id : i \in DOMAIN st}

\* one condition of a where clause: an undefined value is no condition
WhereField(value, cond) == cond = Undefined \/ value = cond

MatchesWhere(r, where) ==
    /\ WhereField(r.country, where.country)
    /\ WhereField(r.state_province, where.state_province)
    /\ WhereField(r.name, where.name)

\* db.university.findFirst({where}): the first matching row, or NoRecord
findFirst(st, where) ==
    LET hits == SelectSeq(st, LAMBDA r : MatchesWhere(r, where))
    IN  IF hits = <<>> THEN NoRecord ELSE hits[1]

\* db.university.findUnique({where: {id}})
findUnique(st, id) ==
    LET hits == SelectSeq(st, LAMBDA r : r.id = id)
    IN  IF hits = <<>> THEN NoRecord ELSE hits[1]

\* the row with domains and web_pages taken from each other
NewRowSwapped(id, data) ==
    [id |-> id,
     name |-> data.name,
     country |-> data.country,
     state_province |-> IF data.state_province = Undefined THEN Null
                        ELSE data.state_province,
     alpha_two_code |-> data.alpha_two_code,
     domains |-> data.web_pages,
     web_pages |-> data.domains]

\* the row db.university.create({data}) inserts: an omitted optional column is NULL
NewRow(id, data) ==
    [id |-> id,
     name |-> data.name,
     country |-> data.country,
     state_province |-> OrNull(data.state_province),
     alpha_two_code |-> data.alpha_two_code,
     domains |-> data.domains,
     web_pages |-> data.web_pages]

\* one column of an update: an undefined value leaves the column alone
SetField(old, new) == IF new = Undefined THEN old ELSE new

UpdateRow(r, data) ==
    [r EXCEPT !.web_pages = SetField(@, data.web_pages),
              !.name = SetField(@, data.name),
              !.domains = SetField(@, data.domains)]

\* db.university.update rejects: no row with the id, or null for a required column
UpdateThrows(st, id, data) ==
    \/ id \notin Ids(st)
    \/ Null \in {data.web_pages, data.name, data.domains}

\* an update whose where clause selects every row
updateAll(st, id, data) ==
    [i \in DOMAIN st |-> [st[i] EXCEPT !.web_pages = SetField(@, data.web_pages),
                                       !.name = SetField(@, data.name),
                                       !.domains = SetField(@, data.domains)]]

update(st, id, data) ==
    [i \in DOMAIN st |-> IF st[i].id = id THEN UpdateRow(st[i], data) ELSE st[i]]

\* db.university.delete rejects when no row has the id
DeleteThrows(st, id) == id \notin Ids(st)

delete(st, id) == SelectSeq(st, LAMBDA r : r.id # id)

(* --------------------------- response shapes ------------------------- *)

\* UniversityResponse
Sanitize(r) ==
    ("_id" :> r.id) @@ ("name" :> r.name) @@ ("country" :> r.country)
    @@ ("state-province" :> r.state_province)
    @@ ("alpha_two_code" :> r.alpha_two_code)
    @@ ("domains" :> r.domains) @@ ("web_pages" :> r.web_pages)

NoResponse == [op |-> "none", status |-> 0]

Response(op, req, status, body, pre, calls) ==
    [op |-> op, req |-> req, status |-> status, body |-> body,
     pre |-> pre, calls |-> calls]

(* ------------------------------ requests ----------------------------- *)

US == <<"U", "S">>
NameA == <<"A">>
NameB == <<"B">>
Country1 == <<"u", "s", "a">>
Province1 == <<"S">>
Pages1 == Arr(<< <<"w">> >>)
Pages2 == Arr(<< <<"w", "2">> >>)
Domains1 == Arr(<< <<"d">> >>)

Body(alpha, pages, name, country, domains, province) ==
    [alpha_two_code |-> alpha, web_pages |-> pages, name |-> name,
     country |-> country, domains |-> domains, state_province |-> province]

\* Create bodies that pass validation, with and without state_province
CreateBodies ==
    {Body(Str(US), Pages1, Str(n), Str(Country1), Domains1, p) :
        n \in {NameA, NameB}, p \in {Undefined, Null, Str(Province1)}}

UpdateBodies ==
    [web_pages : {Undefined, Pages2},
     name : {Undefined, Null, Str(NameA), Str(NameB)},
     domains : {Undefined, Domains1}]

RequestIds == 1..MaxId

(* ------------------------------ handlers ----------------------------- *)

\* the validation without the length check of lines 90-92
ValidateNoLength(body) ==
    IF \/ Falsy(body.alpha_two_code) \/ Falsy(body.web_pages) \/ Falsy(body.name)
       \/ Falsy(body.country) \/ Falsy(body.domains)
    THEN [status |-> 400,
          body |-> ("error" :> "Missing required information")
                   @@ ("alpha_two_code" :> OrNull(body.alpha_two_code))
                   @@ ("web_pages" :> OrNull(body.web_pages))
                   @@ ("name" :> OrNull(body.name))
                   @@ ("country" :> OrNull(body.country))
                   @@ ("domains" :> OrNull(body.domains))]
    ELSE [status |-> 0]

\* addUniversity up to its first await: validation, then findFirst
Validate(body) ==
    IF \/ Falsy(body.alpha_two_code) \/ Falsy(body.web_pages) \/ Falsy(body.name)
       \/ Falsy(body.country) \/ Falsy(body.domains)
    THEN [status |-> 400,
          body |-> ("error" :> "Missing required information")
                   @@ ("alpha_two_code" :> OrNull(body.alpha_two_code))
                   @@ ("web_pages" :> OrNull(body.web_pages))
                   @@ ("name" :> OrNull(body.name))
                   @@ ("country" :> OrNull(body.country))
                   @@ ("domains" :> OrNull(body.domains))]
    ELSE IF Length(body.alpha_two_code) # 2
    THEN [status |-> 400,
          body |-> ("error" :> "Country abbreviation needs to be 2 characters long")]
    ELSE [status |-> 0]

AlreadyExists(st, body) ==
    findFirst(st, [country |-> body.country,
                   state_province |-> body.state_province,
                   name |-> body.name]) # NoRecord

Conflict == [status |-> 400, body |-> ("error" :> "University already exists")]

Created(row) ==
    [status |-> 201,
     body |-> ("message" :> "Created University") @@ ("newUniversity" :> Sanitize(row))]

\* the whole of addUniversity, no other request running between its awaits
Create(body) ==
    LET v == Validate(body)
        row == NewRow(nextId, body)
    IN  /\ IF v.status # 0
           THEN /\ resp' = Response("create", body, v.status, v.body, store, <<>>)
                /\ UNCHANGED <<store, nextId>>
           ELSE IF AlreadyExists(store, body)
           THEN /\ resp' = Response("create", body, Conflict.status, Conflict.body,
                                    store, <<"findFirst">>)
                /\ UNCHANGED <<store, nextId>>
           ELSE /\ nextId <= MaxId
                /\ store' = Append(store, row)
                /\ nextId' = nextId + 1
                /\ resp' = Response("create", body, Created(row).status,
                                    Created(row).body, store, <<"findFirst", "create">>)
        /\ UNCHANGED pending

\* getUniversityById
Get(id) ==
    LET u == findUnique(store, id)
    IN  /\ resp' = IF u = NoRecord
                   THEN Response("get", id, 404, ("error" :> "University Not Found"),
                                 store, <<"findUnique">>)
                   ELSE Response("get", id, 200, Sanitize(u), store, <<"findUnique">>)
        /\ UNCHANGED <<store, nextId, pending>>

\* updateUniversity without its try/catch: a rejection leaves the handler, unanswered
UpdateUncaught(id, body) ==
    /\ IF \/ id \notin Ids(store)
          \/ Null \in {body.web_pages, body.name, body.domains}
       THEN /\ resp' = Response("update", [id |-> id, body |-> body], 0, <<>>,
                                store, <<"update">>)
            /\ UNCHANGED store
       ELSE /\ store' = [i \in DOMAIN store |->
                            IF store[i].id = id THEN UpdateRow(store[i], body)
                            ELSE store[i]]
            /\ resp' = Response("update", [id |-> id, body |-> body], 200,
                                ("message" :> "Updated University"), store, <<"update">>)
    /\ UNCHANGED <<nextId, pending>>

\* updateUniversity: any rejection of db.university.update is answered 404
Update(id, body) ==
    /\ IF UpdateThrows(store, id, body)
       THEN /\ resp' = Response("update", [id |-> id, body |-> body], 404,
                                ("error" :> "University Not Found"), store, <<"update">>)
            /\ UNCHANGED store
       ELSE /\ store' = update(store, id, body)
            /\ resp' = Response("update", [id |-> id, body |-> body], 200,
                                ("message" :> "Updated University")
                                @@ ("updatedUniversity" :>
                                       Sanitize(findUnique(update(store, id, body), id))),
                                store, <<"update">>)
    /\ UNCHANGED <<nextId, pending>>

\* deleteUniversity with the try/catch updateUniversity has
DeleteCaught(id) ==
    /\ IF id \notin Ids(store)
       THEN /\ resp' = Response("delete", id, 404, ("error" :> "University Not Found"),
                                store, <<"delete">>)
            /\ UNCHANGED store
       ELSE /\ store' = SelectSeq(store, LAMBDA r : r.id # id)
            /\ resp' = Response("delete", id, 200,
                                ("message" :> "Deleted University")
                                @@ ("deletedUniversity" :> Sanitize(findUnique(store, id))),
                                store, <<"delete">>)
    /\ UNCHANGED <<nextId, pending>>

\* deleteUniversity: a rejection of db.university.delete leaves the handler, unanswered
Delete(id) ==
    /\ IF DeleteThrows(store, id)
       THEN /\ resp' = Response("delete", id, 0, <<>>, store, <<"delete">>)
            /\ UNCHANGED store
       ELSE /\ store' = delete(store, id)
            /\ resp' = Response("delete", id, 200,
                                ("message" :> "Deleted University")
                                @@ ("deletedUniversity" :> Sanitize(findUnique(store, id))),
                                store, <<"delete">>)
    /\ UNCHANGED <<nextId, pending>>

(* ------------------- addUniversity, await by await -------------------- *)

\* the two concurrent Create requests
Requests == {1, 2}

NoRequests == [r \in {} |-> NoResponse]

InFlight(body, pc, seen, status) ==
    [body |-> body, pc |-> pc, seen |-> seen, status |-> status]

\* lines 76-104: validation and the existence check, up to the await of create
CreateCheck(r, body) ==
    LET v == Validate(body)
    IN  /\ r \notin DOMAIN pending
        /\ IF v.status # 0
           THEN /\ pending' = pending @@ (r :> InFlight(body, "done", store, v.status))
                /\ resp' = Response("create", body, v.status, v.body, store, <<>>)
           ELSE IF AlreadyExists(store, body)
           THEN /\ pending' = pending @@ (r :> InFlight(body, "done", store, Conflict.status))
                /\ resp' = Response("create", body, Conflict.status, Conflict.body,
                                    store, <<"findFirst">>)
           ELSE /\ pending' = pending @@ (r :> InFlight(body, "create", store, 0))
                /\ UNCHANGED resp
        /\ UNCHANGED <<store, nextId>>

\* the insert with the existence check repeated in the same step
CreateInsertRechecked(r) ==
    /\ r \in DOMAIN pending
    /\ pending[r].pc = "create"
    /\ IF AlreadyExists(store, pending[r].body)
       THEN /\ pending' = [pending EXCEPT ![r].pc = "done", ![r].status = 400]
            /\ resp' = Response("create", pending[r].body, 400,
                                ("error" :> "University already exists"),
                                pending[r].seen, <<"findFirst">>)
            /\ UNCHANGED <<store, nextId>>
       ELSE /\ nextId <= MaxId
            /\ store' = Append(store, NewRow(nextId, pending[r].body))
            /\ nextId' = nextId + 1
            /\ pending' = [pending EXCEPT ![r].pc = "done", ![r].status = 201]
            /\ resp' = Response("create", pending[r].body, 201,
                                ("message" :> "Created University"),
                                pending[r].seen, <<"findFirst", "create">>)

\* lines 106-132: the insert and the 201 answer, with no second look at the table
CreateInsert(r) ==
    LET body == pending[r].body
        row == NewRow(nextId, body)
    IN  /\ r \in DOMAIN pending
        /\ pending[r].pc = "create"
        /\ nextId <= MaxId
        /\ store' = Append(store, row)
        /\ nextId' = nextId + 1
        /\ pending' = [pending EXCEPT ![r].pc = "done", ![r].status = Created(row).status]
        /\ resp' = Response("create", body, Created(row).status, Created(row).body,
                            pending[r].seen, <<"findFirst", "create">>)

(* --------------------------- getAllUniversities ----------------------- *)

PageSize == 20

LowerChar(c) ==
    CASE c = "A" -> "a" [] c = "B" -> "b" [] c = "R" -> "r"
      [] c = "S" -> "s" [] c = "U" -> "u" [] OTHER -> c

ToLower(s) == [i \in DOMAIN s |-> LowerChar(s[i])]

\* the filter without mode: 'insensitive'
EqualsSensitive(value, cond) == cond = Undefined \/ value = cond

\* country: {equals, mode: 'insensitive'}; an undefined equals is no condition
EqualsInsensitive(value, cond) ==
    cond = Undefined \/ (value.t = "string" /\ ToLower(value.v) = ToLower(cond.v))

\* the rows findMany returns: matching rows from row i on, in table order, after
\* skip, at most take
RECURSIVE Scan(_, _, _, _, _)
Scan(st, i, cond, skip, take) ==
    IF i > Len(st) \/ take = 0 THEN <<>>
    ELSE IF ~EqualsInsensitive(st[i].country, cond)
         THEN Scan(st, i + 1, cond, skip, take)
    ELSE IF skip > 0 THEN Scan(st, i + 1, cond, skip - 1, take)
    ELSE <<st[i]>> \o Scan(st, i + 1, cond, 0, take - 1)

\* select: {id, name, country, state_province}
Select(rows) ==
    [i \in DOMAIN rows |->
        [id |-> rows[i].id, name |-> rows[i].name, country |-> rows[i].country,
         state_province |-> rows[i].state_province]]

\* db.university.findMany({select, where, take, skip})
findMany(st, country, take, skip) == Select(Scan(st, 1, country, skip, take))

ListItem(u) ==
    ("_id" :> u.id) @@ ("name" :> u.name) @@ ("country" :> u.country)
    @@ ("state-province" :> u.state_province)

Digits == <<"0", "1", "2", "3", "4", "5", "6", "7", "8", "9">>

DigitValue(c) == (CHOOSE i \in DOMAIN Digits : Digits[i] = c) - 1

\* Number(page) of a string of decimal digits
RECURSIVE Number(_)
Number(s) ==
    IF s = <<>> THEN 0
    ELSE Number(SubSeq(s, 1, Len(s) - 1)) * 10 + DigitValue(s[Len(s)])

SanitizeAll(universities) ==
    [i \in DOMAIN universities |-> ListItem(universities[i])]

ListResponse(page, universities) ==
    ("page" :> page) @@ ("universities" :> SanitizeAll(universities))
    @@ ("amount" :> Len(universities))

QueryPage(page) == IF page = Undefined THEN Str(<<"1">>) ELSE page

List(country, page) ==
    /\ resp' = Response("list", [country |-> country, page |-> page], 200,
                        ListResponse(Number(QueryPage(page).v),
                                     findMany(store, country, PageSize,
                                              (Number(QueryPage(page).v) - 1) * PageSize)),
                        store, <<"findMany">>)
    /\ UNCHANGED <<store, nextId, pending>>

(* -------------------------- request populations ---------------------- *)

\* Create bodies for the validation paths: each required field absent, null, empty or given
ValidationBodies ==
    {Body(a, w, n, c, d, Undefined) :
        a \in {Undefined, Null, Str(<<>>), Str(<<"U">>), Str(US), Str(<<"U", "S", "A">>)},
        w \in {Undefined, Pages1},
        n \in {Undefined, Null, Str(<<>>), Str(NameA)},
        c \in {Undefined, Null, Str(Country1)},
        d \in {Null, Arr(<<>>)}}

RECURSIVE Decimal(_)
Decimal(n) ==
    IF n < 10 THEN <<Digits[n + 1]>>
    ELSE Decimal(n \div 10) \o <<Digits[(n % 10) + 1]>>

PageInputs == {Undefined} \cup {Str(Decimal(p)) : p \in 1..MaxPage}

ListCountries == {<<"u", "s", "a">>, <<"U", "S", "A">>, <<"b", "r">>}

ListFilters == {Undefined, Str(<<"U", "s", "a">>)} \cup {Str(c) : c \in ListCountries}

\* a table of n universities with distinct names, countries alternating as pat says
Table(n, pat) ==
    [i \in 1..n |->
        NewRow(i, Body(Str(US), Pages1, Str(Decimal(i)), Str(pat[(i % 2) + 1]),
                       Domains1, Undefined))]

\* table sizes at and next to every ten rows, and the largest
TableSizes == {n \in 0..MaxRecords : n % 10 \in {0, 1, 9} \/ n = MaxRecords}

ListTables == {Table(n, pat) : n \in TableSizes, pat \in [1..2 -> ListCountries]}

\* the updates between a Create and its Get: none, one or all of the fields set,
\* and a null name
RoundTripUpdates ==
    {b \in UpdateBodies :
        /\ b.name # Str(NameA)
        /\ b.domains = Undefined \/ (b.web_pages # Undefined /\ b.name = Str(NameB))}

(* --------------------------- specifications -------------------------- *)

Init ==
    /\ store = <<>>
    /\ nextId = 1
    /\ pending = NoRequests
    /\ resp = NoResponse
    /\ created = NoRequests

\* handlers run one after another
Next ==
    \/ \E b \in CreateBodies : Create(b) /\ UNCHANGED created
    \/ \E id \in RequestIds : Get(id) /\ UNCHANGED created
    \/ \E id \in RequestIds, b \in UpdateBodies : Update(id, b) /\ UNCHANGED created
    \/ \E id \in RequestIds : Delete(id) /\ UNCHANGED created

Spec == Init /\ [][Next]_vars

\* the validation paths of addUniversity
NextValidation ==
    \/ \E b \in ValidationBodies : Create(b) /\ UNCHANGED created
    \/ \E id \in RequestIds : Delete(id) /\ UNCHANGED created

SpecValidation == Init /\ [][NextValidation]_vars

\* two addUniversity requests interleaved at their awaits
NextRace ==
    \/ \E r \in Requests, b \in CreateBodies : CreateCheck(r, b) /\ UNCHANGED created
    \/ \E r \in Requests : CreateInsert(r) /\ UNCHANGED created

SpecRace == Init /\ [][NextRace]_vars

\* which records still are as their Create request made them
Track ==
    created' =
        IF resp'.op = "create" /\ resp'.status = 201
        THEN created @@ (resp'.body["newUniversity"]["_id"] :> resp'.req)
        ELSE IF resp'.op = "update" /\ resp'.status = 200
        THEN [i \in DOMAIN created \ {resp'.req.id} |-> created[i]]
        ELSE IF resp'.op = "delete" /\ resp'.status = 200
        THEN [i \in DOMAIN created \ {resp'.req} |-> created[i]]
        ELSE created

NextRoundTrip ==
    \/ \E b \in CreateBodies : Create(b) /\ Track
    \/ \E id \in RequestIds : Get(id) /\ Track
    \/ \E id \in RequestIds, b \in RoundTripUpdates : Update(id, b) /\ Track
    \/ \E id \in RequestIds : Delete(id) /\ Track

SpecRoundTrip == Init /\ [][NextRoundTrip]_vars

InitList ==
    /\ store \in ListTables
    /\ nextId = Len(store) + 1
    /\ pending = NoRequests
    /\ resp = NoResponse
    /\ created = NoRequests

NextList ==
    \E c \in ListFilters, p \in PageInputs : List(c, p) /\ UNCHANGED created

SpecList == InitList /\ [][NextList]_vars

(* ------------------------------- claims ------------------------------ *)

\* what a claim reads off the last handler run
Triple(r) == <<r.country, r.state_province, r.name>>

BodyTriple(b) ==
    <<b.country, IF b.state_province = Undefined THEN Null ELSE b.state_province, b.name>>

Absent(v) == v.t \in {"undefined", "null"}

RequiredFields == {"alpha_two_code", "web_pages", "name", "country", "domains"}

ErrorIs(msg) == DOMAIN resp.body = {"error"} /\ resp.body["error"] = msg

MessageIs(msg) == "message" \in DOMAIN resp.body /\ resp.body["message"] = msg

RowOf(st, id) == st[CHOOSE i \in DOMAIN st : st[i].id = id]

\* b is the public shape of row r
PublicShape(b, r) ==
    /\ DOMAIN b = {"_id", "name", "country", "state-province", "alpha_two_code",
                   "domains", "web_pages"}
    /\ b["_id"] = r.id
    /\ b["name"] = r.name
    /\ b["country"] = r.country
    /\ b["state-province"] = r.state_province
    /\ b["alpha_two_code"] = r.alpha_two_code
    /\ b["domains"] = r.domains
    /\ b["web_pages"] = r.web_pages

\* C1: no two stored universities have the same (country, state_province, name)
C1_UniqueTriples ==
    \A i, j \in DOMAIN store : i # j => Triple(store[i]) # Triple(store[j])

\* C2: two Create requests with the same triple that both ran the existence check
\* before either inserted are both answered 201, and the table then holds two
\* records with that triple
C2_RaceInsertsTwice ==
    \A r, q \in DOMAIN pending :
        ( /\ r # q
          /\ pending[r].pc = "done" /\ pending[q].pc = "done"
          /\ BodyTriple(pending[r].body) = BodyTriple(pending[q].body)
          /\ pending[r].seen = <<>> /\ pending[q].seen = <<>> )
        => /\ pending[r].status = 201 /\ pending[q].status = 201
           /\ Cardinality({i \in DOMAIN store :
                              Triple(store[i]) = BodyTriple(pending[r].body)}) = 2

C2_BothCreated ==
    \E r, q \in DOMAIN pending :
        /\ r # q
        /\ pending[r].pc = "done" /\ pending[q].pc = "done"
        /\ pending[r].body = pending[q].body
        /\ pending[r].seen = <<>> /\ pending[q].seen = <<>>
        /\ pending[r].status = 201 /\ pending[q].status = 201
        /\ Len(store) = 2 /\ Triple(store[1]) = Triple(store[2])
        /\ resp.status = 201

\* C3: a Create run alone, with its five required fields present and a two-letter
\* alpha_two_code, is answered 400 'University already exists' with the table
\* unchanged when a stored record has its (country, state_province, name), and
\* otherwise inserts exactly one record and is answered 201 'Created University'
C3_CreateChecksTriple ==
    ( /\ resp.op = "create"
      /\ \A f \in RequiredFields : ~Absent(resp.req[f])
      /\ Len(resp.req.alpha_two_code.v) = 2 )
    => IF \E i \in DOMAIN resp.pre : Triple(resp.pre[i]) = BodyTriple(resp.req)
       THEN /\ resp.status = 400
            /\ ErrorIs("University already exists")
            /\ store = resp.pre
       ELSE /\ resp.status = 201
            /\ MessageIs("Created University")
            /\ Len(store) = Len(resp.pre) + 1
            /\ SubSeq(store, 1, Len(resp.pre)) = resp.pre

\* C4: a Create whose alpha_two_code is not of length 2 is answered 400, makes no
\* persistence call and leaves the table unchanged
C4_BadAlphaRejected ==
    ( /\ resp.op = "create"
      /\ ~(resp.req.alpha_two_code.t = "string" /\ Len(resp.req.alpha_two_code.v) = 2) )
    => /\ resp.status = 400
       /\ resp.calls = <<>>
       /\ store = resp.pre

C4_LongAlphaRejected ==
    /\ resp.op = "create"
    /\ resp.req.alpha_two_code = Str(<<"U", "S", "A">>)
    /\ \A f \in RequiredFields : ~Absent(resp.req[f])
    /\ resp.req.name = Str(NameA)
    /\ resp.status = 400
    /\ Len(store) = 1

\* C5: a Create with a required field absent or null is answered 400 'Missing
\* required information', reporting null for exactly the absent or null fields and
\* the supplied value of every other required field, with no persistence call
C5_MissingReported ==
    ( /\ resp.op = "create"
      /\ \E f \in RequiredFields : Absent(resp.req[f]) )
    => /\ resp.status = 400
       /\ DOMAIN resp.body = {"error"} \cup RequiredFields
       /\ resp.body["error"] = "Missing required information"
       /\ \A f \in RequiredFields :
              resp.body[f] = IF Absent(resp.req[f]) THEN Null ELSE resp.req[f]
       /\ resp.calls = <<>>
       /\ store = resp.pre

C5_EmptyNameEchoed ==
    /\ resp.op = "create"
    /\ resp.req.alpha_two_code = Undefined
    /\ resp.req.country = Null
    /\ resp.req.name = Str(<<>>)
    /\ resp.status = 400
    /\ resp.body["name"] = Str(<<>>)
    /\ resp.body["alpha_two_code"] = Null

\* C6: no handler run changes the country, state_province or alpha_two_code of a
\* record it leaves in the table; an Update keeps every identifier and position
\* and leaves every record other than the one it names unchanged
C6_UpdateFrame ==
    /\ resp.op # "none" =>
           \A i \in DOMAIN store, j \in DOMAIN resp.pre :
               store[i].id = resp.pre[j].id =>
                   /\ store[i].country = resp.pre[j].country
                   /\ store[i].state_province = resp.pre[j].state_province
                   /\ store[i].alpha_two_code = resp.pre[j].alpha_two_code
    /\ resp.op = "update" =>
           /\ Len(store) = Len(resp.pre)
           /\ \A i \in DOMAIN store :
                  /\ store[i].id = resp.pre[i].id
                  /\ store[i].id # resp.req.id => store[i] = resp.pre[i]

C6_NameOnlyUpdate ==
    /\ resp.op = "update"
    /\ resp.status = 200
    /\ resp.req.body.web_pages = Undefined /\ resp.req.body.domains = Undefined
    /\ Len(store) = 2
    /\ resp.req.id = store[2].id
    /\ store[2].name # resp.pre[2].name
    /\ store[2].state_province = Str(Province1)

\* C7, as stated: a Get of a record not updated or deleted since its Create answers
\* 200 with the returned _id and with every public field equal to the Create body's
C7_RoundTripAsStated ==
    (resp.op = "get" /\ resp.req \in DOMAIN created)
    => /\ resp.status = 200
       /\ resp.body["_id"] = resp.req
       /\ resp.body["name"] = created[resp.req].name
       /\ resp.body["country"] = created[resp.req].country
       /\ resp.body["state-province"] = created[resp.req].state_province
       /\ resp.body["alpha_two_code"] = created[resp.req].alpha_two_code
       /\ resp.body["domains"] = created[resp.req].domains
       /\ resp.body["web_pages"] = created[resp.req].web_pages

\* C7, amended: as stated, with state-province equal to the body's state_province
\* when the body gives one and null when the body omits it
C7_RoundTrip ==
    (resp.op = "get" /\ resp.req \in DOMAIN created)
    => /\ resp.status = 200
       /\ resp.body["_id"] = resp.req
       /\ resp.body["name"] = created[resp.req].name
       /\ resp.body["country"] = created[resp.req].country
       /\ resp.body["state-province"] =
              IF created[resp.req].state_province = Undefined THEN Null
              ELSE created[resp.req].state_province
       /\ resp.body["alpha_two_code"] = created[resp.req].alpha_two_code
       /\ resp.body["domains"] = created[resp.req].domains
       /\ resp.body["web_pages"] = created[resp.req].web_pages

C7_GetAfterCreate ==
    /\ resp.op = "get"
    /\ resp.req \in DOMAIN created
    /\ resp.req = 2
    /\ created[2].state_province = Str(Province1)
    /\ resp.status = 200
    /\ 1 \in Ids(store) /\ 1 \notin DOMAIN created

\* C8: List answers 200 with the records whose country equals the filter ignoring
\* letter case (all records without a filter), in table order, the first
\* (page-1)*20 of them skipped and at most the next 20 returned; amount is the
\* number returned and at most 20, page is the requested page (1 by default), and
\* a filter differing only in letter case selects the same records
CasePairs == {{"a", "A"}, {"b", "B"}, {"r", "R"}, {"s", "S"}, {"u", "U"}}

SameIgnoringCase(a, b) ==
    /\ Len(a) = Len(b)
    /\ \A i \in DOMAIN a : a[i] = b[i] \/ {a[i], b[i]} \in CasePairs

RequestedPage(page) ==
    IF page = Undefined THEN 1 ELSE CHOOSE p \in 1..MaxPage : Decimal(p) = page.v

Selected(st, filter) ==
    SelectSeq(st, LAMBDA r : filter = Undefined \/ SameIgnoringCase(r.country.v, filter.v))

PageOf(rows, p) ==
    SubSeq(rows, (p - 1) * 20 + 1, IF p * 20 < Len(rows) THEN p * 20 ELSE Len(rows))

ListsRows(items, rows) ==
    /\ Len(items) = Len(rows)
    /\ \A i \in DOMAIN rows :
           /\ DOMAIN items[i] = {"_id", "name", "country", "state-province"}
           /\ items[i]["_id"] = rows[i].id
           /\ items[i]["name"] = rows[i].name
           /\ items[i]["country"] = rows[i].country
           /\ items[i]["state-province"] = rows[i].state_province

C8_ListPage ==
    resp.op = "list" =>
        /\ resp.status = 200
        /\ store = resp.pre
        /\ ListsRows(resp.body["universities"],
                     PageOf(Selected(resp.pre, resp.req.country),
                            RequestedPage(resp.req.page)))
        /\ resp.body["amount"] = Len(resp.body["universities"])
        /\ resp.body["amount"] <= 20
        /\ resp.body["page"] = RequestedPage(resp.req.page)
        /\ \A g \in ListFilters \ {Undefined} :
               (resp.req.country # Undefined /\ SameIgnoringCase(g.v, resp.req.country.v))
               => ListsRows(resp.body["universities"],
                            findMany(resp.pre, g, PageSize,
                                     (RequestedPage(resp.req.page) - 1) * PageSize))

C8_SecondPageMixedCase ==
    /\ resp.op = "list"
    /\ resp.req.country = Str(<<"U", "s", "a">>)
    /\ resp.req.page = Str(<<"3">>)
    /\ Len(store) = 41
    /\ store[1].country # store[2].country
    /\ resp.body["amount"] = 1
    /\ resp.body["universities"][1]["_id"] = 41

C10_Delete ==
    resp.op = "delete" =>
        IF resp.req \notin Ids(resp.pre)
        THEN /\ resp.status = 0
             /\ store = resp.pre
        ELSE /\ resp.status = 200
             /\ MessageIs("Deleted University")
             /\ PublicShape(resp.body["deletedUniversity"], RowOf(resp.pre, resp.req))
             /\ Len(store) = Len(resp.pre) - 1
             /\ \A i \in DOMAIN resp.pre :
                    resp.pre[i].id # resp.req =>
                        \E j \in DOMAIN store : store[j] = resp.pre[i]
             /\ resp.req \notin Ids(store)

C10_UnansweredDelete ==
    /\ resp.op = "delete"
    /\ resp.req \notin Ids(resp.pre)
    /\ resp.status = 0
    /\ Len(store) = 1

====
